---- MODULE Spec2Model ----
(***************************************************************************)
(* Model of graph.py (go-bench-graph): the template compiler format_regex  *)
(* and the stdin aggregation loop of __main__.  Text is modelled as        *)
(* sequences of one-character strings; a compiled regular expression is a  *)
(* sequence of elements matched by a greedy backtracking matcher, as       *)
(* Python's re module does for the patterns this program builds.           *)
(***************************************************************************)
EXTENDS Integers, Sequences, FiniteSets, TLC

VARIABLES pc, regex, specific_regex, label_regex, graph_regex, data,
          consumed, stdout, error

vars == <<pc, regex, specific_regex, label_regex, graph_regex, data,
          consumed, stdout, error>>

(* ---------------------------- bounds ----------------------------------- *)
\* number of lines read from stdin in one run
MaxLines == 3
\* length (in tokens) of the templates enumerated by SpecCompile
MaxTemplateLen == 4

(* -------------------------- characters --------------------------------- *)
Digit == {"0", "1", "2", "3", "4", "5", "6", "7", "8", "9"}

Letter == {"a", "b", "c", "d", "e", "f", "g", "h", "i", "j", "k", "l", "m",
           "n", "o", "p", "q", "r", "s", "t", "u", "v", "w", "x", "y", "z",
           "A", "B", "C", "D", "E", "F", "G", "H", "I", "J", "K", "L", "M",
           "N", "O", "P", "Q", "R", "S", "T", "U", "V", "W", "X", "Y", "Z"}

\* \s
Whitespace == {" ", "\t", "\n"}

\* "\w\d_" inside a character class
ALLOWED_NAME_CHARS == Letter \cup Digit \cup {"_"}

\* "\d" inside a character class
ALLOWED_DIGIT_CHARS == Digit

(* ------------------------ regular expressions -------------------------- *)
\* one literal character
Lit(c) == [kind |-> "one", chars |-> {c}, cap |-> FALSE]

\* "[" + chars + "]+", or "([" + chars + "]+)" when cap
ClassPlus(chars, cap) == [kind |-> "plus", chars |-> chars, cap |-> cap]

ClassStar(chars) == [kind |-> "star", chars |-> chars, cap |-> FALSE]

EndOfLine == [kind |-> "eol", chars |-> {}, cap |-> FALSE]

\* the value None where a compiled pattern is expected
None == [isNone |-> TRUE, prog |-> <<>>]

Compiled(prog) == [isNone |-> FALSE, prog |-> prog]

\* result of a failed search ("match is None")
NoMatch == [matched |-> FALSE, groups |-> <<>>]

RECURSIVE RunLen(_, _, _)
\* length of the longest run of characters of `chars` in s starting at p
RunLen(s, p, chars) ==
    IF p <= Len(s) /\ s[p] \in chars THEN 1 + RunLen(s, p + 1, chars) ELSE 0

RECURSIVE MatchHere(_, _, _, _), Backtrack(_, _, _, _, _, _)
\* match elements i.. of prog against s at position p
MatchHere(prog, i, s, p) ==
    IF i > Len(prog) THEN [matched |-> TRUE, groups |-> <<>>]
    ELSE LET el == prog[i] IN
      CASE el.kind = "eol" ->
             IF p = Len(s) + 1 \/ (p = Len(s) /\ s[p] = "\n")
             THEN MatchHere(prog, i + 1, s, p)
             ELSE NoMatch
        [] el.kind = "one" ->
             IF p <= Len(s) /\ s[p] \in el.chars
             THEN LET rest == MatchHere(prog, i + 1, s, p + 1) IN
                  IF rest.matched /\ el.cap
                  THEN [matched |-> TRUE,
                        groups |-> <<SubSeq(s, p, p)>> \o rest.groups]
                  ELSE rest
             ELSE NoMatch
        [] OTHER ->
             Backtrack(prog, i, s, p, RunLen(s, p, el.chars),
                       IF el.kind = "plus" THEN 1 ELSE 0)

\* greedy quantifier i of prog at position p: take k characters, and give
\* them back one at a time, down to lo, until the rest of the pattern matches
Backtrack(prog, i, s, p, k, lo) ==
    IF k < lo THEN NoMatch
    ELSE LET rest == MatchHere(prog, i + 1, s, p + k) IN
         IF rest.matched
         THEN [matched |-> TRUE,
               groups |-> IF prog[i].cap
                          THEN <<SubSeq(s, p, p + k - 1)>> \o rest.groups
                          ELSE rest.groups]
         ELSE Backtrack(prog, i, s, p, k - 1, lo)

RECURSIVE SearchFrom(_, _, _)
\* the first match at position p or later
SearchFrom(prog, s, p) ==
    IF p > Len(s) + 1 THEN NoMatch
    ELSE LET m == MatchHere(prog, 1, s, p) IN
         IF m.matched THEN m ELSE SearchFrom(prog, s, p + 1)

\* pattern.search(s): the match at the leftmost position that has one
Search(prog, s) == SearchFrom(prog, s, 1)

\* re.compile(r"(\d+)\s*([\d\.]+) ns\/op$")
data_regex ==
    Compiled(<<ClassPlus(Digit, TRUE), ClassStar(Whitespace),
               ClassPlus(Digit \cup {"."}, TRUE),
               Lit(" "), Lit("n"), Lit("s"), Lit("/"), Lit("o"), Lit("p"),
               EndOfLine>>)

(* ------------------------------ float ---------------------------------- *)
DigitVal == "0" :> 0 @@ "1" :> 1 @@ "2" :> 2 @@ "3" :> 3 @@ "4" :> 4 @@
            "5" :> 5 @@ "6" :> 6 @@ "7" :> 7 @@ "8" :> 8 @@ "9" :> 9

RECURSIVE DigitsValue(_)
DigitsValue(ds) ==
    IF ds = <<>> THEN 0
    ELSE 10 * DigitsValue(SubSeq(ds, 1, Len(ds) - 1)) + DigitVal[ds[Len(ds)]]

RECURSIVE Reduce(_, _)
\* the number m / 10^e in lowest terms of e
Reduce(m, e) ==
    IF e > 0 /\ m % 10 = 0 THEN Reduce(m \div 10, e - 1)
    ELSE [ok |-> TRUE, m |-> m, e |-> e]

ValueError == [ok |-> FALSE, m |-> 0, e |-> 0]

\* float(text) for text of digits and dots: the number m / 10^e, or ValueError
Float(text) ==
    LET dots   == {i \in 1..Len(text) : text[i] = "."}
        digits == SelectSeq(text, LAMBDA c : c \in Digit)
    IN IF \/ Cardinality(dots) > 1
          \/ digits = <<>>
          \/ \E i \in 1..Len(text) : text[i] \notin Digit \cup {"."}
       THEN ValueError
       ELSE LET e == IF dots = {} THEN 0
                     ELSE Len(text) - (CHOOSE i \in dots : TRUE)
            IN Reduce(DigitsValue(digits), e)

\* the result of replace thrown away: the text as it was captured
Replace_none(s, old, new) == s

\* s.replace(old, new) for one-character old and new
Replace(s, old, new) ==
    [i \in 1..Len(s) |-> IF s[i] = old THEN new ELSE s[i]]

(* ---------------------------- format_regex ---------------------------- *)
\* a template is a sequence of tokens: one-character strings and the
\* replacement fields below; "{x}" is a field with any other name
Fields == {"{N}", "{label}", "{graph}", "{x}"}

\* general_regex.format(N=..., label=..., graph=...): KeyError on a field
\* that is not among the keyword arguments
Format(general_regex, N, label, graph) ==
    IF \E i \in 1..Len(general_regex) : general_regex[i] = "{x}"
    THEN [ok |-> FALSE, err |-> "KeyError", pat |-> <<>>]
    ELSE LET Sub(tok) == CASE tok = "{N}"     -> N
                           [] tok = "{label}" -> label
                           [] tok = "{graph}" -> graph
                           [] OTHER           -> <<Lit(tok)>>
             F[i \in 0..Len(general_regex)] ==
                 IF i = 0 THEN <<>> ELSE F[i - 1] \o Sub(general_regex[i])
         IN [ok |-> TRUE, err |-> "", pat |-> F[Len(general_regex)]]

\* re.compile(pattern): re.error on an unterminated subpattern
ReCompile(pat) ==
    IF \E i \in 1..Len(pat) : pat[i] = Lit("(")
    THEN [ok |-> FALSE, err |-> "re.error", re |-> None]
    ELSE [ok |-> TRUE, err |-> "", re |-> Compiled(pat)]

\* re.compile(general_regex.format(...)), either of which may raise
FormatCompile(general_regex, N, label, graph) ==
    LET f == Format(general_regex, N, label, graph) IN
    IF ~f.ok THEN [ok |-> FALSE, err |-> f.err, re |-> None]
    ELSE ReCompile(f.pat)

\* format_regex with the graph pattern compiled even when {graph} is absent
format_regex_always_graph(template) ==
    LET disable_graph == ~(\E i \in 1..Len(template) : template[i] = "{graph}")
        general_regex == IF disable_graph THEN Append(template, "{graph}")
                         ELSE template
        name(cap)     == <<ClassPlus(ALLOWED_NAME_CHARS, cap)>>
        digit(cap)    == <<ClassPlus(ALLOWED_DIGIT_CHARS, cap)>>
        s == FormatCompile(general_regex, digit(TRUE), name(FALSE),
                           IF ~disable_graph THEN name(FALSE) ELSE <<>>)
        l == FormatCompile(general_regex, digit(FALSE), name(TRUE),
                           IF ~disable_graph THEN name(FALSE) ELSE <<>>)
        g == FormatCompile(general_regex, digit(FALSE), name(FALSE), name(TRUE))
    IN IF ~s.ok THEN [ok |-> FALSE, err |-> s.err,
                      specific |-> None, label |-> None, graph |-> None]
       ELSE IF ~l.ok THEN [ok |-> FALSE, err |-> l.err,
                           specific |-> None, label |-> None, graph |-> None]
       ELSE IF ~g.ok THEN [ok |-> FALSE, err |-> g.err,
                           specific |-> None, label |-> None, graph |-> None]
       ELSE [ok |-> TRUE, err |-> "",
             specific |-> s.re, label |-> l.re, graph |-> g.re]

\* format_regex(general_regex): the three compiled patterns, or the
\* exception raised on the way
format_regex(template) ==
    LET disable_graph == ~(\E i \in 1..Len(template) : template[i] = "{graph}")
        general_regex == IF disable_graph THEN Append(template, "{graph}")
                         ELSE template
        name(cap)     == <<ClassPlus(ALLOWED_NAME_CHARS, cap)>>
        digit(cap)    == <<ClassPlus(ALLOWED_DIGIT_CHARS, cap)>>
        s == FormatCompile(general_regex, digit(TRUE), name(FALSE),
                           IF ~disable_graph THEN name(FALSE) ELSE <<>>)
        l == FormatCompile(general_regex, digit(FALSE), name(TRUE),
                           IF ~disable_graph THEN name(FALSE) ELSE <<>>)
        g == IF ~disable_graph
             THEN FormatCompile(general_regex, digit(FALSE), name(FALSE),
                                name(TRUE))
             ELSE [ok |-> TRUE, err |-> "", re |-> None]
    IN IF ~s.ok THEN [ok |-> FALSE, err |-> s.err,
                      specific |-> None, label |-> None, graph |-> None]
       ELSE IF ~l.ok THEN [ok |-> FALSE, err |-> l.err,
                           specific |-> None, label |-> None, graph |-> None]
       ELSE IF ~g.ok THEN [ok |-> FALSE, err |-> g.err,
                           specific |-> None, label |-> None, graph |-> None]
       ELSE [ok |-> TRUE, err |-> "",
             specific |-> s.re, label |-> l.re, graph |-> g.re]

(* ------------------------------ inputs --------------------------------- *)
\* 'f_p,10/al 1000 5.25 ns/op\n'
LineFastA ==
    <<"f", "_", "p", ",", "1", "0", "/", "a", "l", " ", "1", "0", "0", "0",
      " ", "5", ".", "2", "5", " ", "n", "s", "/", "o", "p", "\n">>

\* 'f_p,20/al 500 9.0 ns/op\n'
LineFastB ==
    <<"f", "_", "p", ",", "2", "0", "/", "a", "l", " ", "5", "0", "0", " ",
      "9", ".", "0", " ", "n", "s", "/", "o", "p", "\n">>

\* 's,10/a_l 200 7 ns/op\n'
LineSlow ==
    <<"s", ",", "1", "0", "/", "a", "_", "l", " ", "2", "0", "0", " ", "7",
      " ", "n", "s", "/", "o", "p", "\n">>

\* 'log 1 1.2.3 ns/op\n'
LineLogBadTime ==
    <<"l", "o", "g", " ", "1", " ", "1", ".", "2", ".", "3", " ", "n", "s",
      "/", "o", "p", "\n">>

\* 'some log\n'
LineLog ==
    <<"s", "o", "m", "e", " ", "l", "o", "g", "\n">>

\* 'f_p,10/al 1000 1.2.3 ns/op'
LineBenchBadTime ==
    <<"f", "_", "p", ",", "1", "0", "/", "a", "l", " ", "1", "0", "0", "0",
      " ", "1", ".", "2", ".", "3", " ", "n", "s", "/", "o", "p">>

\* 'x 1000 5.25 ns/op\n'
LineOther ==
    <<"x", " ", "1", "0", "0", "0", " ", "5", ".", "2", "5", " ", "n", "s",
      "/", "o", "p", "\n">>

Lines == {LineFastA, LineFastB, LineSlow, LineLogBadTime, LineLog,
          LineBenchBadTime, LineOther}

\* "{label},{N}/{graph}"
TemplateFull == <<"{label}", ",", "{N}", "/", "{graph}">>

\* "{label},{N}"
TemplateNoGraph == <<"{label}", ",", "{N}">>

\* "{label}/{graph}": no {N}
TemplateNoN == <<"{label}", "/", "{graph}">>

\* "{label},{N}/{label}": {label} twice
TemplateTwoLabels == <<"{label}", ",", "{N}", "/", "{label}">>

\* "({label},{N}": not a regular expression
TemplateBadSyntax == <<"(", "{label}", ",", "{N}">>

Templates == {TemplateFull, TemplateNoGraph, TemplateNoN, TemplateTwoLabels,
              TemplateBadSyntax}

TemplateTokens == {"{N}", "{label}", "{graph}", "{x}", ",", "("}

\* every template of at most MaxTemplateLen tokens
AllTemplates == UNION {[1..k -> TemplateTokens] : k \in 0..MaxTemplateLen}

(* ----------------------------- the loop -------------------------------- *)
\* outcome of one iteration of the loop over sys.stdin
Appended(d) == [kind |-> "append", data |-> d, err |-> ""]

\* print("Ignoring non-matching line:", line); continue
Ignored(d) == [kind |-> "ignore", data |-> d, err |-> ""]

Raised(d, err) == [kind |-> "raise", data |-> d, err |-> err]

\* d[k] = v
SetItem(d, k, v) == [x \in (DOMAIN d) \cup {k} |-> IF x = k THEN v ELSE d[x]]

\* to_add inserted at the front of data[graph][label]
AddToDataSet_prepend(d, graph, label, to_add) ==
    LET d1 == IF graph \notin DOMAIN d THEN SetItem(d, graph, <<>>) ELSE d
        g1 == IF label \notin DOMAIN d1[graph]
              THEN SetItem(d1[graph], label, <<>>) ELSE d1[graph]
    IN SetItem(d1, graph, SetItem(g1, label, <<to_add>> \o g1[label]))

\* data[graph][label] = [to_add]: the list replaced instead of extended
AddToDataSet_overwrite(d, graph, label, to_add) ==
    LET d1 == IF graph \notin DOMAIN d THEN SetItem(d, graph, <<>>) ELSE d
    IN SetItem(d1, graph, SetItem(d1[graph], label, <<to_add>>))

\* the data set with to_add appended to data[graph][label]
AddToDataSet(d, graph, label, to_add) ==
    LET d1 == IF graph \notin DOMAIN d THEN SetItem(d, graph, <<>>) ELSE d
        g1 == IF label \notin DOMAIN d1[graph]
              THEN SetItem(d1[graph], label, <<>>) ELSE d1[graph]
    IN SetItem(d1, graph, SetItem(g1, label, Append(g1[label], to_add)))

\* the docstring's name "default" used when there is no graph pattern
IdentifyGraph_default(line, d, to_add, label) ==
    IF ~graph_regex.isNone
    THEN LET match == Search(graph_regex.prog, line) IN
         IF ~match.matched THEN Ignored(d)
         ELSE IF match.groups = <<>> THEN Raised(d, "IndexError")
         ELSE Appended(AddToDataSet(d, Replace(match.groups[1], "_", " "),
                                    label, to_add))
    ELSE Appended(AddToDataSet(d, <<"d", "e", "f", "a", "u", "l", "t">>,
                               label, to_add))

\* identify the graph name and add to the data set
IdentifyGraph(line, d, to_add, label) ==
    IF ~graph_regex.isNone
    THEN LET match == Search(graph_regex.prog, line) IN
         IF ~match.matched THEN Ignored(d)
         ELSE IF match.groups = <<>> THEN Raised(d, "IndexError")
         ELSE Appended(AddToDataSet(d, Replace(match.groups[1], "_", " "),
                                    label, to_add))
    ELSE Appended(AddToDataSet(d, <<>>, label, to_add))

\* identify the label
IdentifyLabel(line, d, to_add) ==
    LET match == Search(label_regex.prog, line) IN
    IF ~match.matched THEN Ignored(d)
    ELSE IF match.groups = <<>> THEN Raised(d, "IndexError")
    ELSE IdentifyGraph(line, d, to_add, Replace(match.groups[1], "_", " "))

\* the entry data[""] created before the N value is looked for
IdentifyN_group_first(line, d, to_add) ==
    LET match == Search(specific_regex.prog, line)
        d0    == IF <<>> \in DOMAIN d THEN d ELSE SetItem(d, <<>>, <<>>)
    IN
    IF ~match.matched THEN Ignored(d0)
    ELSE IF match.groups = <<>> THEN Raised(d0, "IndexError")
    ELSE LET N == Float(match.groups[1]) IN
         IF ~N.ok THEN Raised(d0, "ValueError")
         ELSE IdentifyLabel(line, d0, <<N>> \o to_add)

\* identify the N value
IdentifyN(line, d, to_add) ==
    LET match == Search(specific_regex.prog, line) IN
    IF ~match.matched THEN Ignored(d)
    ELSE IF match.groups = <<>> THEN Raised(d, "IndexError")
    ELSE LET N == Float(match.groups[1]) IN
         IF ~N.ok THEN Raised(d, "ValueError")
         ELSE IdentifyLabel(line, d, <<N>> \o to_add)

\* identify the data: the body of the loop for one line
IdentifyData(line, d) ==
    LET match == Search(data_regex.prog, line) IN
    IF ~match.matched THEN Ignored(d)
    ELSE LET to_add == [i \in 1..Len(match.groups) |-> Float(match.groups[i])]
         IN IF \E i \in 1..Len(to_add) : ~to_add[i].ok
            THEN Raised(d, "ValueError")
            ELSE IdentifyN(line, d, to_add)

\* np.array(val) for a list of rows of three numbers
NpArray(val) ==
    [shape |-> <<Len(val), 3>>,
     flat  |-> [i \in 1..(3 * Len(val)) |->
                  val[((i - 1) \div 3) + 1][((i - 1) % 3) + 1]]]

(* ----------------------------- actions --------------------------------- *)
Init ==
    /\ pc = "start"
    /\ regex \in Templates
    /\ specific_regex = None
    /\ label_regex = None
    /\ graph_regex = None
    /\ data = <<>>
    /\ consumed = <<>>
    /\ stdout = <<>>
    /\ error = ""

InitCompile ==
    /\ pc = "start"
    /\ regex \in AllTemplates
    /\ specific_regex = None
    /\ label_regex = None
    /\ graph_regex = None
    /\ data = <<>>
    /\ consumed = <<>>
    /\ stdout = <<>>
    /\ error = ""

\* specific_regex, label_regex, graph_regex = format_regex(regex)
Compile ==
    /\ pc = "start"
    /\ LET r == format_regex(regex) IN
       /\ specific_regex' = r.specific
       /\ label_regex' = r.label
       /\ graph_regex' = r.graph
       /\ error' = r.err
       /\ pc' = IF r.ok THEN "loop" ELSE "aborted"
    /\ UNCHANGED <<regex, data, consumed, stdout>>

\* one iteration of "for line in sys.stdin"
ReadLine(line) ==
    /\ pc = "loop"
    /\ Len(consumed) < MaxLines
    /\ LET r == IdentifyData(line, data) IN
       /\ data' = r.data
       /\ stdout' = IF r.kind = "ignore" THEN Append(stdout, line) ELSE stdout
       /\ error' = r.err
       /\ pc' = IF r.kind = "raise" THEN "aborted" ELSE "loop"
    /\ consumed' = Append(consumed, line)
    /\ UNCHANGED <<regex, specific_regex, label_regex, graph_regex>>

\* stdin is exhausted: make the lists into numpy arrays
EndOfInput ==
    /\ pc = "loop"
    /\ data' = [g \in DOMAIN data |->
                  [l \in DOMAIN data[g] |-> NpArray(data[g][l])]]
    /\ pc' = "done"
    /\ UNCHANGED <<regex, specific_regex, label_regex, graph_regex,
                   consumed, stdout, error>>

Next == Compile \/ (\E line \in Lines : ReadLine(line)) \/ EndOfInput

Spec == Init /\ [][Next]_vars

NextCompile == Compile

SpecCompile == InitCompile /\ [][NextCompile]_vars

(* ------------------- definitions used by the properties ---------------- *)
Last(s) == s[Len(s)]

Count(t, tok) == Cardinality({i \in 1..Len(t) : t[i] = tok})

\* exactly one {N}, exactly one {label}, at most one {graph}
CardinalityOK(t) ==
    /\ Count(t, "{N}") = 1
    /\ Count(t, "{label}") = 1
    /\ Count(t, "{graph}") <= 1

\* right cardinality, no other field, and a well-formed regular expression
ValidTemplate(t) ==
    /\ CardinalityOK(t)
    /\ Count(t, "{x}") = 0
    /\ Count(t, "(") = 0

MatchesData(line) == Search(data_regex.prog, line).matched

MatchesN(line) == Search(specific_regex.prog, line).matched

MatchesLabel(line) == Search(label_regex.prog, line).matched

MatchesGraph(line) ==
    graph_regex.isNone \/ Search(graph_regex.prog, line).matched

PassesAllMatchers(line) ==
    MatchesData(line) /\ MatchesN(line) /\ MatchesLabel(line) /\ MatchesGraph(line)

\* underscores as spaces
Spaced(s) == [i \in 1..Len(s) |-> IF s[i] = "_" THEN " " ELSE s[i]]

\* what the input line means under the compiled patterns: whether it passes
\* every matcher with every capture present and convertible, and then its
\* group and label with underscores as spaces and its triple
\* (size, iterations, time)
LineInfo(line) ==
    LET md == Search(data_regex.prog, line)
        mn == Search(specific_regex.prog, line)
        ml == Search(label_regex.prog, line)
        mg == IF graph_regex.isNone THEN [matched |-> TRUE, groups |-> <<<<>>>>]
              ELSE Search(graph_regex.prog, line)
        passes == md.matched /\ mn.matched /\ ml.matched /\ mg.matched
        caps   == passes /\ mn.groups # <<>> /\ ml.groups # <<>>
        triple == IF caps
                  THEN <<Float(mn.groups[1]), Float(md.groups[1]),
                         Float(md.groups[2])>>
                  ELSE <<>>
    IN [passes   |-> passes,
        accepted |-> caps /\ \A i \in 1..3 : triple[i].ok,
        graph    |-> IF caps THEN Spaced(mg.groups[1]) ELSE <<>>,
        label    |-> IF caps THEN Spaced(ml.groups[1]) ELSE <<>>,
        triple   |-> triple]

\* LineInfo of every line read so far
Infos == [i \in 1..Len(consumed) |-> LineInfo(consumed[i])]

\* the rows of a numpy array of shape (n, 3)
Rows(a) ==
    [i \in 1..a.shape[1] |->
       <<a.flat[3 * (i - 1) + 1], a.flat[3 * (i - 1) + 2], a.flat[3 * (i - 1) + 3]>>]

\* the measurement list of a (group, label) pair, as a sequence of triples
Series(g, l) == IF pc = "done" THEN Rows(data[g][l]) ELSE data[g][l]

\* the triples of the accepted lines among infos that map to (g, l)
ExpectedSeries(infos, g, l) ==
    LET sel == SelectSeq(infos, LAMBDA x : x.accepted /\ x.graph = g /\ x.label = l)
    IN [i \in 1..Len(sel) |-> sel[i].triple]

Pairs == {<<g, l>> \in (DOMAIN data) \X (UNION {DOMAIN data[g] : g \in DOMAIN data}) :
            l \in DOMAIN data[g]}

RECURSIVE TotalLen(_)
TotalLen(P) ==
    IF P = {} THEN 0
    ELSE LET x == CHOOSE y \in P : TRUE
         IN Len(Series(x[1], x[2])) + TotalLen(P \ {x})

(* ------------------------------ properties ----------------------------- *)
\* C1: a line that fails the measurement, size, label or group matcher
\* leaves the Dataset exactly as it was before the line was handled.
C1_FailedLineLeavesDataset ==
    [][(/\ pc = "loop"
        /\ Len(consumed') = Len(consumed) + 1
        /\ ~PassesAllMatchers(Last(consumed')))
       => data' = data]_vars

C1_Witness ==
    /\ pc = "loop"
    /\ data # <<>>
    /\ stdout # <<>>
    /\ Len(consumed) >= 2
    /\ MatchesData(Last(consumed))
    /\ ~MatchesN(Last(consumed))

\* C2: with a valid template, the run is never aborted at a line that fails
\* one of the matchers; such a line is only dropped.
C2_MatchFailureNeverAborts ==
    (ValidTemplate(regex) /\ pc = "aborted" /\ consumed # <<>>)
        => PassesAllMatchers(Last(consumed))

\* C3: a template without {N} or {label}, or with one of them twice, makes
\* format_regex fail instead of returning matchers.
C3_BadCardinalityFailsCompile ==
    (pc # "start" /\ (Count(regex, "{N}") # 1 \/ Count(regex, "{label}") # 1))
        => (pc = "aborted" /\ specific_regex.isNone)

\* C4: every measurement list of the Dataset is the sequence of triples of
\* the accepted input lines of its (group, label) pair, in input order.
C4_OrderPreserved ==
    pc \in {"loop", "done", "aborted"} =>
        LET infos == Infos IN
        \A p \in Pairs : Series(p[1], p[2]) = ExpectedSeries(infos, p[1], p[2])

C4_Witness ==
    /\ pc = "done"
    /\ stdout # <<>>
    /\ \E p \in Pairs : /\ Len(Series(p[1], p[2])) >= 2
                        /\ Series(p[1], p[2])[1] # Series(p[1], p[2])[2]

\* C5: format_regex succeeds on every valid template, and the graph matcher
\* it returns is None exactly when the template has no {graph}.
C5_ValidTemplateCompiles ==
    (pc # "start" /\ ValidTemplate(regex)) =>
        /\ pc = "loop"
        /\ ~specific_regex.isNone
        /\ ~label_regex.isNone
        /\ (graph_regex.isNone <=> (Count(regex, "{graph}") = 0))

C5_Witness ==
    /\ pc = "loop"
    /\ ValidTemplate(regex)
    /\ Count(regex, "{graph}") = 0
    /\ graph_regex.isNone
    /\ ~specific_regex.isNone

C7_NamesNormalized ==
    pc \in {"loop", "done", "aborted"} =>
        LET infos == Infos IN
        \A p \in Pairs :
            /\ \A i \in 1..Len(p[1]) : p[1][i] # "_"
            /\ \A i \in 1..Len(p[2]) : p[2][i] # "_"
            /\ \E i \in 1..Len(infos) :
                 /\ infos[i].accepted
                 /\ p[1] = infos[i].graph
                 /\ p[2] = infos[i].label

C7_Witness ==
    \E p \in Pairs : /\ \E i \in 1..Len(p[1]) : p[1][i] = " "
                     /\ \E q \in Pairs : \E i \in 1..Len(q[2]) : q[2][i] = " "

\* C8: a run with an invalid template is aborted before any input is
\* consumed: no line is ever read under such a template.
C8_InvalidTemplateAbortsBeforeInput ==
    ~ValidTemplate(regex) => consumed = <<>>

\* C9: with a valid template, handling a line that passes all matchers
\* appends its triple (size, iterations, time) to the end of the list of its
\* normalized group and label and changes nothing else.
C9_PassingLineAppendsOneTriple ==
    [][(/\ ValidTemplate(regex)
        /\ pc = "loop"
        /\ Len(consumed') = Len(consumed) + 1
        /\ PassesAllMatchers(Last(consumed')))
       => LET info == LineInfo(Last(consumed'))
              g    == info.graph
              l    == info.label
              old  == IF g \in DOMAIN data /\ l \in DOMAIN data[g]
                      THEN data[g][l] ELSE <<>>
          IN /\ DOMAIN data' = (DOMAIN data) \cup {g}
             /\ \A x \in DOMAIN data : x # g => data'[x] = data[x]
             /\ DOMAIN data'[g] =
                  (IF g \in DOMAIN data THEN DOMAIN data[g] ELSE {}) \cup {l}
             /\ \A y \in (DOMAIN data'[g]) \ {l} : data'[g][y] = data[g][y]
             /\ data'[g][l] = Append(old, info.triple)]_vars

\* C10: the Dataset has no empty group and no empty series, and holds as
\* many measurements as lines have been accepted.
C10_NoEmptyEntriesAndCount ==
    pc \in {"loop", "done", "aborted"} =>
        /\ \A g \in DOMAIN data : DOMAIN data[g] # {}
        /\ \A p \in Pairs : Len(Series(p[1], p[2])) >= 1
        /\ TotalLen(Pairs) =
             Cardinality({i \in 1..Len(consumed) : LineInfo(consumed[i]).accepted})

C10_Witness ==
    /\ pc = "loop"
    /\ Cardinality(DOMAIN data) = 2
    /\ Len(consumed) = 3
    /\ TotalLen(Pairs) = 2

====
